---- MODULE Spec2Model ----
(***************************************************************************)
(* Terrain subsystem of the voxel client: the renderer's shared terrain    *)
(* index buffer, the per-chunk render cache filled by                      *)
(* terrain_system_render, the staged frame systems, and Chunk's spatial    *)
(* indexing.                                                               *)
(*                                                                         *)
(* Number representation.  TLC's integers are 31 bits wide, the code's are *)
(* u32 and usize (64 bit).  Nothing is scaled down; instead                *)
(*   - a usize length `len` is the record [q |-> len / 4, r |-> len % 4]   *)
(*     (check_index_buffer reads len only through len / 4 and through      *)
(*     len > u32::MAX, which is len / 4 >= 2^30);                          *)
(*   - a u32 index count is always even (6 indices per quad) and is        *)
(*     carried halved, so that n = 2*h with h in 0 .. 2^31 - 1; the wrap   *)
(*     of `as u32` (mod 2^32) is the wrap of the halves mod 2^31.          *)
(***************************************************************************)
EXTENDS Integers, Sequences, FiniteSets, TLC

(***************************************************************************)
(* Program constants                                                       *)
(***************************************************************************)
\* compute_terrain_indices(&device, 5000) in Renderer::new
INITIAL_VERT_LENGTH == 5000

\* u32::MAX / 2 = 2^31 - 1: the largest halved u32
U32_MAX_HALF == 2147483647

\* (u32::MAX + 1) / 4 = 2^30: len > u32::MAX  <=>  len / 4 >= 2^30
U32_RANGE_QUADS == 1073741824

\* compute_terrain_indices(&device, 5000) in the legacy Renderer::new
LEGACY_INITIAL_VERT_LENGTH == 5000

\* Chunk::SIZE = (16, 256, 16)
SIZE_X == 16
SIZE_Y == 256
SIZE_Z == 16

(***************************************************************************)
(* Bounds of the model                                                     *)
(***************************************************************************)
\* frames the model runs
MaxFrames == 2

\* positions probed lie up to ProbeMargin outside the chunk on every side
ProbeMargin == 1

\* the chunk grid is a row of RowLen chunks and every chunk adjacent to one of them
RowLen == 2

\* directories of up to MaxTextures textures are packed, besides the large ones
MaxTextures == 6

\* textures are up to MaxTile pixels wide and high
MaxTile == 2

\* ticks the scheduler runs
MaxTicks == 20

(***************************************************************************)
(* Lengths                                                                 *)
(***************************************************************************)
\* a small length as a [q, r] record
ToLen(n) == [q |-> n \div 4, r |-> n % 4]

\* len > u32::MAX as usize
GtU32Max(len) == len.q >= U32_RANGE_QUADS

\* u32 wrapping addition on halved values: (a + b) mod 2^31
WrappingAddHalf(a, b) ==
    IF a > U32_MAX_HALF - b THEN (a - (U32_MAX_HALF - b)) - 1 ELSE a + b

\* (quads * 6) as u32, halved: (3 * quads) mod 2^31, for quads < 2^31
IndexCountAsU32Half(quads) ==
    WrappingAddHalf(WrappingAddHalf(quads, quads), quads)

\* Buffer<u32>::len() of a buffer built from 6 * quads indices, halved.
\* len() is a u32 (it is compared with `vertex_length as u32`).
BufferLenHalf(quads) == IndexCountAsU32Half(quads)

IndexFormats == {"Uint16", "Uint32", "None"}

\* vertex counts handed to create_vertex_buffer by arbitrary callers, as quads:
\* small ones around the initial capacity, the last count whose index count
\* fits u32, the first that wraps, counts up to u32::MAX, and counts beyond it
CallerQuads ==
    {0, 1000, 1250, 1251, 2000,
     715827882, 715827883, 716000000, 1073741823,
     1073741824, 1431655766}

CallerLens == {[q |-> k, r |-> m] : k \in CallerQuads, m \in {0, 3}}

\* the lengths other callers use while the terrain system runs: one that grows
\* the initial buffer, and two whose index count exceeds u32
OtherLens == {[q |-> k, r |-> 0] : k \in {2000, 716000000, 1073741823}}

(***************************************************************************)
(* State                                                                   *)
(***************************************************************************)
VARIABLES
    terrain_index_buffer,  \* Renderer.terrain_index_buffer: the quads it was built for
                           \* (it holds 6 * quads indices)
    panicked,              \* the process aborted in a panic
    last_call,             \* the most recent create_vertex_buffer call of a caller
                           \* other than the terrain system: [fmt, len], or NoCall
    terrain_map,           \* keys of TerrainMap.chunks
    terrain_render,        \* TerrainRender.chunks: ChunkPos -> vertex buffer length
    mesh_calls,            \* how often mesh::create_chunk_mesh ran for each position
    wireframe,             \* TerrainRender.wireframe
    stage,                 \* the stage the scheduler runs next
    frame,                 \* number of the frame being rendered (0 before the first)
    last_acquire,          \* what get_current_texture returned in this frame
    texture,               \* the Option<RenderTexture> resource
    encoder,               \* the Option<CommandEncoder> resource
    submitted,             \* frames whose commands queue.submit received, in order
    presented,             \* frames whose surface texture was presented, in order
    terrain_scanned,       \* terrain_system_render ran to its end since TerrainMap
                           \* last changed
    probe,                 \* a block position handed to Chunk's functions
    index_result,          \* what Chunk::index_of returned for it, once applied
    oob_result,            \* what Chunk::out_of_bounds returned for it, once applied
    within_result,         \* what Chunk::within_bounds returned for it, once applied
    chunk,                 \* the Chunk at hand, by the constructor that built it
    get_result,            \* what Chunk::get returned for probe, once applied
    chunk_iter,            \* the ChunkIter at hand
    iter_item,             \* what its last next() returned
    yielded,               \* how many positions it has yielded (history)
    pack_input,            \* the directory pack_textures is run on
    pack_result,           \* how the run of pack_textures ended
    ran,                   \* the stages the scheduler has run in this tick, in order
    ticks,                 \* how many ticks the scheduler has completed
    legacy_index_buffer,   \* the legacy render crate's Renderer.terrain_index_buffer:
                           \* the quads it was built for
    legacy_panicked,       \* the legacy renderer aborted in a panic
    legacy_last_call       \* its most recent create_vertex_buffer call: [fmt, len]

indexVars == <<terrain_index_buffer, panicked, last_call>>
terrainVars == <<terrain_map, terrain_render, mesh_calls, terrain_scanned>>
probeVars == <<probe, index_result, oob_result, within_result, chunk, get_result>>
iterVars == <<chunk_iter, iter_item, yielded>>
chunkVars == <<probeVars, iterVars>>
packVars == <<pack_input, pack_result>>
schedVars == <<ran, ticks>>
legacyVars == <<legacy_index_buffer, legacy_panicked, legacy_last_call>>
frameVars == <<wireframe, stage, frame, last_acquire, texture, encoder,
               submitted, presented>>
vars == <<terrain_index_buffer, panicked, last_call,
          terrain_map, terrain_render, mesh_calls, terrain_scanned,
          wireframe, stage, frame, last_acquire, texture, encoder,
          submitted, presented, probe, index_result, oob_result, within_result,
          chunk, get_result, chunk_iter, iter_item, yielded,
          pack_input, pack_result, ran, ticks,
          legacy_index_buffer, legacy_panicked, legacy_last_call>>

(***************************************************************************)
(* The shared terrain index buffer                                         *)
(***************************************************************************)
\* compute_terrain_indices: asserts vert_length <= u32::MAX, then builds
\* vert_length / 4 * 6 indices.  Result: the new buffer (its quads) or a panic.
compute_terrain_indices(vert_length) ==
    IF GtU32Max(vert_length)
    THEN [panic |-> TRUE, buf |-> 0]
    ELSE [panic |-> FALSE, buf |-> vert_length.q]

\* the six indices of a quad: [0, 1, 2, 2, 3, 0]
TerrainIndexPattern == <<0, 1, 2, 2, 3, 0>>

\* the index at place i = 6 * quad + k (k in 0 .. 5) of the buffer that
\* compute_terrain_indices builds: (i / 6 * 4 + b) as u32 with b the i-th element
\* of the cycled pattern.  The value 4 * quad + b is at most vert_length - 1, a
\* u32, and is given as the record [q |-> value / 4, r |-> value % 4].
IndexAt(quad, k) ==
    LET b == TerrainIndexPattern[(k % 6) + 1]
    IN  [q |-> quad + b \div 4, r |-> b % 4]

\* check_index_buffer rebuilding the buffer whenever its length differs from the
\* one needed (`!=` for `<`)
check_index_buffer_on_mismatch(buf, fmt, len) ==
    IF fmt = "Uint32" /\ BufferLenHalf(buf) # IndexCountAsU32Half(len.q)
    THEN IF GtU32Max(len)
         THEN [panic |-> TRUE, buf |-> buf]
         ELSE compute_terrain_indices(len)
    ELSE [panic |-> FALSE, buf |-> buf]

\* Renderer::check_index_buffer::<V>(len) on the index buffer `buf`, where fmt is
\* V::INDEX_BUFFER.  Result: [panic, buf].
check_index_buffer(buf, fmt, len) ==
    LET vertex_length_as_u32_half == IndexCountAsU32Half(len.q)
    IN  IF fmt = "Uint32"
        THEN IF BufferLenHalf(buf) < vertex_length_as_u32_half
             THEN IF GtU32Max(len)
                  THEN [panic |-> TRUE, buf |-> buf]
                  ELSE compute_terrain_indices(len)
             ELSE [panic |-> FALSE, buf |-> buf]
        ELSE [panic |-> FALSE, buf |-> buf]

\* Renderer::create_vertex_buffer::<T>(data) with data.len() = len: the index
\* buffer check, then a fresh vertex buffer of that length.
create_vertex_buffer(buf, fmt, len) == check_index_buffer(buf, fmt, len)

\* last_call before any call
NoCall == [fmt |-> "none", len |-> ToLen(0)]

\* A caller other than the terrain system creates a vertex buffer of one of
\* the lengths `lens` for a vertex type with one of the index formats `fmts`.
CallCreateVertexBuffer(fmts, lens) ==
    /\ ~panicked
    /\ \E fmt \in fmts, len \in lens :
         LET r == create_vertex_buffer(terrain_index_buffer, fmt, len)
         IN  /\ terrain_index_buffer' = r.buf
             /\ panicked' = r.panic
             /\ last_call' = [fmt |-> fmt, len |-> len]
    /\ UNCHANGED <<terrainVars, frameVars, chunkVars, packVars, schedVars, legacyVars>>

(***************************************************************************)
(* The index buffer of the legacy render crate                             *)
(***************************************************************************)
\* (len / 6 * 4) as u32, halved.  With len = 4q + r and q = 3a + b, len / 6 is
\* 2a + (4b + r) / 6, so half of len / 6 * 4 is 4a + 2 * ((4b + r) / 6), taken
\* mod 2^31.
LenDiv6Times4AsU32Half(len) ==
    LET a == len.q \div 3
        b == len.q % 3
        c == 2 * ((4 * b + len.r) \div 6)
        a2 == WrappingAddHalf(a, a)
    IN  WrappingAddHalf(WrappingAddHalf(a2, a2), c)

\* the legacy compute_terrain_indices: the same function as the client's
legacy_compute_terrain_indices(vert_length) ==
    IF GtU32Max(vert_length)
    THEN [panic |-> TRUE, buf |-> 0]
    ELSE [panic |-> FALSE, buf |-> vert_length.q]

\* the legacy Renderer::check_index_buffer::<V>(len): returns when len() is
\* above (len / 6 * 4) as u32, panics for len > u32::MAX, and rebuilds the buffer
\* otherwise.  Result: [panic, buf].
legacy_check_index_buffer(buf, fmt, len) ==
    LET l_as_u32_half == LenDiv6Times4AsU32Half(len)
    IN  IF fmt = "Uint32"
        THEN IF BufferLenHalf(buf) > l_as_u32_half
             THEN [panic |-> FALSE, buf |-> buf]
             ELSE IF GtU32Max(len)
                  THEN [panic |-> TRUE, buf |-> buf]
                  ELSE legacy_compute_terrain_indices(len)
        ELSE [panic |-> FALSE, buf |-> buf]

\* the legacy Renderer::create_vertex_buffer::<T>(data) with data.len() = len
legacy_create_vertex_buffer(buf, fmt, len) == legacy_check_index_buffer(buf, fmt, len)

\* a caller of the legacy renderer creates a vertex buffer
LegacyCallCreateVertexBuffer ==
    /\ ~legacy_panicked
    /\ \E fmt \in IndexFormats, len \in CallerLens :
         LET r == legacy_create_vertex_buffer(legacy_index_buffer, fmt, len)
         IN  /\ legacy_index_buffer' = r.buf
             /\ legacy_panicked' = r.panic
             /\ legacy_last_call' = [fmt |-> fmt, len |-> len]
    /\ UNCHANGED <<indexVars, terrainVars, frameVars, chunkVars, packVars, schedVars>>

InitLegacy ==
    /\ legacy_index_buffer =
           legacy_compute_terrain_indices(ToLen(LEGACY_INITIAL_VERT_LENGTH)).buf
    /\ legacy_panicked = FALSE
    /\ legacy_last_call = NoCall

(***************************************************************************)
(* TerrainMap, the mesher and the render-data cache                        *)
(***************************************************************************)
\* the four planar neighbours looked up by terrain_system_render
Neighbors(pos) ==
    {<<pos[1], pos[2] + 1>>, <<pos[1] + 1, pos[2]>>,
     <<pos[1], pos[2] - 1>>, <<pos[1] - 1, pos[2]>>}

\* the chunk positions of the model: the row (1,0) .. (RowLen,0), whose chunks
\* can get all four neighbours, and the chunks around it, which cannot
Row == (1 .. RowLen) \X {0}
Positions == Row \cup UNION {Neighbors(p) : p \in Row}

\* the neighbour test with `all` for `any`
AnyNeighborMissing_all(terrain, pos) == \A n \in Neighbors(pos) : n \notin terrain

\* neighbors.iter().any(|n| n.is_none())
AnyNeighborMissing(terrain, pos) == \E n \in Neighbors(pos) : n \notin terrain

\* the most quads a chunk mesh can have: six faces on every voxel
MaxMeshQuads == SIZE_X * SIZE_Y * SIZE_Z * 6

\* mesh::create_chunk_mesh: some number of quads, four vertices each
MeshLens == {[q |-> k, r |-> 0] : k \in {1000, 2000, MaxMeshQuads}}

\* TerrainVertex::INDEX_BUFFER; render_system binds the shared buffer as Uint32
TerrainVertexIndexFormat == "Uint32"

\* the loop body without the lookup in the render-data cache
VisitChunk_no_cache_check(s, terrain, pos) ==
    IF AnyNeighborMissing(terrain, pos)
    THEN {s}
    ELSE {LET r == create_vertex_buffer(s.buf, TerrainVertexIndexFormat, mesh)
          IN  [chunks |-> [p \in DOMAIN s.chunks \cup {pos} |->
                              IF p = pos THEN mesh ELSE s.chunks[p]],
               buf |-> r.buf,
               panic |-> r.panic,
               calls |-> [s.calls EXCEPT ![pos] = @ + 1]]
          : mesh \in MeshLens}

\* One pass of the loop body of terrain_system_render at key `pos`, from the loop
\* state s = [chunks, buf, panic, calls]: the set of states it can leave.
VisitChunk(s, terrain, pos) ==
    IF AnyNeighborMissing(terrain, pos)
    THEN {s}
    ELSE IF pos \notin DOMAIN s.chunks
         THEN {LET r == create_vertex_buffer(s.buf, TerrainVertexIndexFormat, mesh)
                   called == [s.calls EXCEPT ![pos] = @ + 1]
               IN  IF r.panic
                   THEN [s EXCEPT !.panic = TRUE, !.calls = called]
                   ELSE [chunks |-> [p \in DOMAIN s.chunks \cup {pos} |->
                                        IF p = pos THEN mesh ELSE s.chunks[p]],
                         buf |-> r.buf,
                         panic |-> FALSE,
                         calls |-> called]
               : mesh \in MeshLens}
         ELSE {s}

\* the loop leaving after the first chunk it meshes (`break` for falling through)
IterateChunks_first_only(s, terrain, remaining) ==
    LET acting == {p \in remaining : VisitChunk(s, terrain, p) # {s}}
    IN  IF acting = {}
        THEN {s}
        ELSE UNION {VisitChunk(s, terrain, p) : p \in acting}

\* The loop over terrain.chunks.iter(): the keys come in the map's arbitrary
\* order.  A key whose pass leaves the loop state as it is can come at any
\* point without changing the result, so only the order of the others is chosen.
RECURSIVE IterateChunks(_, _, _)
IterateChunks(s, terrain, remaining) ==
    LET acting == {p \in remaining : VisitChunk(s, terrain, p) # {s}}
    IN  IF s.panic \/ acting = {}
        THEN {s}
        ELSE UNION {UNION {IterateChunks(t, terrain, remaining \ {p})
                           : t \in VisitChunk(s, terrain, p)}
                    : p \in acting}

\* terrain_system_render: one run of the per-frame meshing system
terrain_system_render ==
    /\ ~panicked
    /\ \E t \in IterateChunks([chunks |-> terrain_render,
                               buf |-> terrain_index_buffer,
                               panic |-> FALSE,
                               calls |-> mesh_calls],
                              terrain_map, terrain_map) :
         /\ terrain_render' = t.chunks
         /\ terrain_index_buffer' = t.buf
         /\ panicked' = t.panic
         /\ mesh_calls' = t.calls
         /\ terrain_scanned' = ~t.panic
    /\ UNCHANGED <<terrain_map, last_call, frameVars, chunkVars, packVars,
                   schedVars, legacyVars>>

\* A generated chunk is inserted into TerrainMap (entries are never removed).
AddChunk ==
    /\ ~panicked
    /\ \E pos \in Positions \ terrain_map : terrain_map' = terrain_map \cup {pos}
    /\ terrain_scanned' = FALSE
    /\ UNCHANGED <<terrain_render, mesh_calls, indexVars, frameVars, chunkVars,
                   packVars, schedVars, legacyVars>>

(***************************************************************************)
(* The frame systems of the renderer plugin                                *)
(***************************************************************************)
None == [some |-> FALSE]
Some(x) == [some |-> TRUE, v |-> x]

\* results of surface.get_current_texture()
AcquireResults == {"Ok", "Timeout", "Outdated", "Lost", "OutOfMemory"}

\* a command encoder nothing was recorded into
NoPass == [begun |-> FALSE, pipeline |-> "none", index_buffer |-> None,
           draws |-> [p \in {} |-> <<>>]]

\* the draw range computed as len / 6 * 4
DrawIndexEnd_swapped(len) == ((len.q * 4 + len.r) \div 6) * 4

\* Buffer::len() / 4 * 6 of a vertex buffer: the end of its draw_indexed range
DrawIndexEnd(len) == len.q * 6

\* The render pass render_system records: the terrain pipeline, the shared index
\* buffer and one draw per cache entry when the cache is non-empty, else nothing
\* but the pass itself.  draws maps each chunk to the index ranges drawn for it.
RenderPass(chunks, wire, index_buffer) ==
    IF DOMAIN chunks # {}
    THEN [begun |-> TRUE,
          pipeline |-> IF wire THEN "terrain_wireframe" ELSE "terrain",
          index_buffer |-> Some(index_buffer),
          draws |-> [p \in DOMAIN chunks |-> <<DrawIndexEnd(chunks[p])>>]]
    ELSE [begun |-> TRUE, pipeline |-> "none", index_buffer |-> None,
          draws |-> [p \in {} |-> <<>>]]

\* pre_render_system: acquire the frame's surface texture and create its encoder
pre_render_system ==
    /\ ~panicked
    /\ stage = "pre_render"
    /\ frame < MaxFrames
    /\ frame' = frame + 1
    /\ \E result \in AcquireResults :
         /\ last_acquire' = result
         /\ IF result = "Ok"
            THEN /\ encoder' = Some([frame |-> frame + 1, pass |-> NoPass])
                 /\ texture' = Some([frame |-> frame + 1])
                 /\ panicked' = FALSE
            ELSE /\ UNCHANGED <<encoder, texture>>
                 /\ panicked' = (result = "OutOfMemory")
    /\ stage' = "render"
    /\ UNCHANGED <<terrain_index_buffer, last_call, terrainVars, wireframe,
                   submitted, presented, chunkVars, packVars, schedVars, legacyVars>>

\* render_system: unwraps both resources, then records the main render pass
render_system ==
    /\ ~panicked
    /\ stage = "render"
    /\ IF texture.some /\ encoder.some
       THEN /\ encoder' = Some([encoder.v EXCEPT !.pass =
                                   RenderPass(terrain_render, wireframe,
                                              terrain_index_buffer)])
            /\ panicked' = FALSE
       ELSE /\ UNCHANGED encoder
            /\ panicked' = TRUE
    /\ stage' = "ui_draw_widgets"
    /\ UNCHANGED <<terrain_index_buffer, last_call, terrainVars, wireframe,
                   frame, last_acquire, texture, submitted, presented,
                   chunkVars, packVars, schedVars, legacyVars>>

\* the UI stages between render and post_render, run by the scheduler in order
ui_stage ==
    /\ ~panicked
    /\ \/ stage = "ui_draw_widgets" /\ stage' = "ui_render"
       \/ stage = "ui_render" /\ stage' = "post_render"
    /\ UNCHANGED <<indexVars, terrainVars, wireframe, frame, last_acquire,
                   texture, encoder, submitted, presented, chunkVars, packVars,
                   schedVars, legacyVars>>

\* post_render_system reading the two resources without taking them
\* (`as_ref()` for `take()`)
post_render_system_no_take ==
    /\ ~panicked
    /\ stage = "post_render"
    /\ UNCHANGED <<texture, encoder>>
    /\ IF texture.some /\ encoder.some
       THEN /\ submitted' = Append(submitted, encoder.v.frame)
            /\ presented' = Append(presented, texture.v.frame)
       ELSE UNCHANGED <<submitted, presented>>
    /\ stage' = "pre_render"
    /\ UNCHANGED <<indexVars, terrainVars, wireframe, frame, last_acquire,
                   chunkVars, packVars, schedVars, legacyVars>>

\* post_render_system: take both resources; submit and present when both are there
post_render_system ==
    /\ ~panicked
    /\ stage = "post_render"
    /\ texture' = None
    /\ encoder' = None
    /\ IF texture.some /\ encoder.some
       THEN /\ submitted' = Append(submitted, encoder.v.frame)
            /\ presented' = Append(presented, texture.v.frame)
       ELSE UNCHANGED <<submitted, presented>>
    /\ stage' = "pre_render"
    /\ UNCHANGED <<indexVars, terrainVars, wireframe, frame, last_acquire,
                   chunkVars, packVars, schedVars, legacyVars>>

\* scene_update_system on GameInput::ToggleWireframe
ToggleWireframe ==
    /\ ~panicked
    /\ wireframe' = ~wireframe
    /\ UNCHANGED <<indexVars, terrainVars, stage, frame, last_acquire,
                   texture, encoder, submitted, presented, chunkVars, packVars,
                   schedVars, legacyVars>>

(***************************************************************************)
(* Chunk: spatial indexing                                                 *)
(***************************************************************************)
\* Vec3::is_any_negative
is_any_negative(pos) == pos[1] < 0 \/ pos[2] < 0 \/ pos[3] < 0

\* index_of with `>` for `>=` on the x axis
index_of_inclusive(pos) ==
    IF is_any_negative(pos)
    THEN None
    ELSE IF pos[1] > SIZE_X \/ pos[2] >= SIZE_Y \/ pos[3] >= SIZE_Z
         THEN None
         ELSE Some(pos[1] + pos[2] * SIZE_X + pos[3] * SIZE_X * SIZE_Y)

\* index_of with SIZE.x for SIZE.y in the z stride
index_of_wrong_stride(pos) ==
    IF is_any_negative(pos)
    THEN None
    ELSE IF pos[1] >= SIZE_X \/ pos[2] >= SIZE_Y \/ pos[3] >= SIZE_Z
         THEN None
         ELSE Some(pos[1] + pos[2] * SIZE_X + pos[3] * SIZE_X * SIZE_X)

\* Chunk::index_of.  The `as usize` casts come after the early return, so they
\* only ever see non-negative values, which they keep.
index_of(pos) ==
    IF is_any_negative(pos)
    THEN None
    ELSE IF pos[1] >= SIZE_X \/ pos[2] >= SIZE_Y \/ pos[3] >= SIZE_Z
         THEN None
         ELSE Some(pos[1] + pos[2] * SIZE_X + pos[3] * SIZE_X * SIZE_Y)

\* i32::MIN and i32::MAX
I32_MIN == -2147483647 - 1
I32_MAX == 2147483647

\* the coordinates probed on an axis of size n: every in-bounds value, ProbeMargin
\* values on either side, and the two ends of i32
ProbeCoords(n) == ((0 - ProbeMargin) .. (n - 1 + ProbeMargin)) \cup {I32_MIN, I32_MAX}
ProbePositions == ProbeCoords(SIZE_X) \X ProbeCoords(SIZE_Y) \X ProbeCoords(SIZE_Z)

NotApplied == [applied |-> FALSE, value |-> None]

\* out_of_bounds without the test for negative coordinates
out_of_bounds_no_negative(pos) ==
    pos[1] >= SIZE_X \/ pos[2] >= SIZE_Y \/ pos[3] >= SIZE_Z

\* out_of_bounds with `>` for `>=` on the y axis
out_of_bounds_inclusive(pos) ==
    \/ is_any_negative(pos)
    \/ pos[1] >= SIZE_X
    \/ pos[2] > SIZE_Y
    \/ pos[3] >= SIZE_Z

\* Chunk::out_of_bounds (the comparisons are on i32, SIZE cast to i32)
out_of_bounds(pos) ==
    \/ is_any_negative(pos)
    \/ pos[1] >= SIZE_X
    \/ pos[2] >= SIZE_Y
    \/ pos[3] >= SIZE_Z

\* Chunk::within_bounds
within_bounds(pos) == ~out_of_bounds(pos)

\* a boolean result not yet computed
NoBool == [applied |-> FALSE, value |-> FALSE]

\* Chunk::index_of(probe) is called
ApplyIndexOf ==
    /\ ~index_result.applied
    /\ index_result' = [applied |-> TRUE, value |-> index_of(probe)]
    /\ UNCHANGED <<probe, oob_result, within_result, chunk, get_result,
                   iterVars, indexVars, terrainVars, frameVars, packVars,
                   schedVars, legacyVars>>

\* Chunk::out_of_bounds(probe) is called
ApplyOutOfBounds ==
    /\ ~oob_result.applied
    /\ oob_result' = [applied |-> TRUE, value |-> out_of_bounds(probe)]
    /\ UNCHANGED <<probe, index_result, within_result, chunk, get_result,
                   iterVars, indexVars, terrainVars, frameVars, packVars,
                   schedVars, legacyVars>>

\* Chunk::within_bounds(probe) is called
ApplyWithinBounds ==
    /\ ~within_result.applied
    /\ within_result' = [applied |-> TRUE, value |-> within_bounds(probe)]
    /\ UNCHANGED <<probe, index_result, oob_result, chunk, get_result,
                   iterVars, indexVars, terrainVars, frameVars, packVars,
                   schedVars, legacyVars>>

(***************************************************************************)
(* Chunk: construction and lookup                                          *)
(***************************************************************************)
\* Self::SIZE.product()
SizeProduct == SIZE_X * SIZE_Y * SIZE_Z

\* Chunk::flat: vec![BlockId::Air; SIZE.product()].  blocks[i] of the code is
\* blocks[i + 1] here.
flat == [blocks |-> [i \in 1 .. SizeProduct |-> "Air"], panic |-> FALSE]

\* the (x, y, z) the three loops of Chunk::generate go through
GenerateLoop == (0 .. SIZE_X - 1) \X (0 .. SIZE_Y - 1) \X (0 .. SIZE_Z - 1)

\* the loops of generate leaving out the last z layer (`SIZE.z - 1` for `SIZE.z`)
GenerateWritten_short ==
    {index_of(p).v : p \in {q \in GenerateLoop : index_of(q).some /\ q[3] < SIZE_Z - 1}}

\* the indices the loops of Chunk::generate write Dirt to: index_of of every
\* position of the loops, those with no index skipped by `continue`
GenerateWritten ==
    {index_of(p).v : p \in {q \in GenerateLoop : index_of(q).some}}

\* the chunk Chunk::generate returns: all Air to start with, Dirt at every index
\* written (every write stores the same value, so their order does not matter);
\* a write at or beyond the vector's length panics
Generated ==
    [blocks |-> [i \in 1 .. SizeProduct |->
                    IF (i - 1) \in GenerateWritten THEN "Dirt" ELSE "Air"],
     panic |-> \E w \in GenerateWritten : w >= SizeProduct]

\* Chunk::generate(_): the argument is not used
generate(coord) == Generated

\* the block sequence of the chunk a constructor built
ChunkBlocks(built) == IF built = "generate" THEN generate(<<0, 0>>).blocks ELSE flat.blocks

\* Chunk::get: index_of(pos).map(|idx| self.blocks[idx]); indexing outside the
\* vector panics
get(blocks, pos) ==
    LET idx == index_of(pos)
    IN  IF ~idx.some
        THEN [panic |-> FALSE, value |-> None]
        ELSE IF idx.v + 1 \notin DOMAIN blocks
             THEN [panic |-> TRUE, value |-> None]
             ELSE [panic |-> FALSE, value |-> Some(blocks[idx.v + 1])]

NoGet == [applied |-> FALSE, panic |-> FALSE, value |-> None]

\* chunk.get(probe) is called
ApplyGet ==
    /\ ~get_result.applied
    /\ LET r == get(ChunkBlocks(chunk), probe)
       IN  get_result' = [applied |-> TRUE, panic |-> r.panic, value |-> r.value]
    /\ UNCHANGED <<probe, index_result, oob_result, within_result, chunk,
                   iterVars, indexVars, terrainVars, frameVars, packVars,
                   schedVars, legacyVars>>

\* a chunk built by flat() or by generate(), and any probe position
\* Chunk::iter: a ChunkIter at index 0 over SIZE
iter == [index |-> 0, size |-> <<SIZE_X, SIZE_Y, SIZE_Z>>]

\* next() with the y coordinate not reduced modulo size.y
ChunkIter_next_y_unwrapped(it) ==
    IF it.index >= it.size[1] * it.size[2] * it.size[3]
    THEN [it |-> it, item |-> None]
    ELSE LET x == it.index % it.size[1]
             y == it.index \div it.size[1]
             z == it.index \div (it.size[1] * it.size[2])
         IN  [it |-> [it EXCEPT !.index = it.index + 1], item |-> Some(<<x, y, z>>)]

\* ChunkIter::next: the iterator after the call and the item returned.  index
\* never exceeds size.product() = 65536, so the u32 arithmetic does not wrap.
ChunkIter_next(it) ==
    IF it.index >= it.size[1] * it.size[2] * it.size[3]
    THEN [it |-> it, item |-> None]
    ELSE LET x == it.index % it.size[1]
             y == (it.index \div it.size[1]) % it.size[2]
             z == it.index \div (it.size[1] * it.size[2])
         IN  [it |-> [it EXCEPT !.index = it.index + 1], item |-> Some(<<x, y, z>>)]

\* next() is called on the iterator at hand
CallNext ==
    /\ LET r == ChunkIter_next(chunk_iter)
       IN  /\ chunk_iter' = r.it
           /\ iter_item' = [applied |-> TRUE, value |-> r.item]
           /\ yielded' = IF r.item.some THEN yielded + 1 ELSE yielded
    /\ UNCHANGED <<probeVars, indexVars, terrainVars, frameVars, packVars,
                   schedVars, legacyVars>>

\* chunk.iter() is called again: a fresh iterator replaces the one at hand
CallIter ==
    /\ iter_item.applied
    /\ chunk_iter' = iter
    /\ iter_item' = NotApplied
    /\ yielded' = 0
    /\ UNCHANGED <<probeVars, indexVars, terrainVars, frameVars, packVars,
                   schedVars, legacyVars>>

\* a fresh iterator, next() not called yet
InitIter ==
    /\ chunk_iter = iter
    /\ iter_item = NotApplied
    /\ yielded = 0

(***************************************************************************)
(* The texture packer                                                      *)
(***************************************************************************)
\* every integer up to 2^24 is an f32; above it the f32 values thin out
F32_EXACT_MAX == 16777216

RECURSIVE Log2Floor(_)
\* the exponent of k: the e with 2^e <= k < 2^(e+1), for k >= 1
Log2Floor(k) == IF k <= 1 THEN 0 ELSE 1 + Log2Floor(k \div 2)

RECURSIVE Pow2(_)
Pow2(e) == IF e = 0 THEN 1 ELSE 2 * Pow2(e - 1)

RECURSIVE SqrtBetween(_, _, _)
\* the k with k*k <= m < (k+1)*(k+1), searched in lo .. hi - 1
SqrtBetween(m, lo, hi) ==
    IF hi - lo <= 1
    THEN lo
    ELSE LET mid == (lo + hi) \div 2
         IN  IF mid * mid <= m THEN SqrtBetween(m, mid, hi) ELSE SqrtBetween(m, lo, mid)

\* floor of the square root of m, for 0 <= m < 2^31
FloorSqrt(m) == SqrtBetween(m, 0, 46341)

\* `len as f32`: the f32 nearest to len, ties to the even mantissa (24 bits of
\* mantissa, so the f32 values from 2^e on are 2^(e-23) apart)
AsF32(len) ==
    IF len <= F32_EXACT_MAX
    THEN len
    ELSE LET ulp == Pow2(Log2Floor(len) - 23)
             q == len \div ulp
             r == len % ulp
         IN  IF 2 * r < ulp THEN q * ulp
             ELSE IF 2 * r > ulp THEN (q + 1) * ulp
             ELSE IF q % 2 = 0 THEN q * ulp ELSE (q + 1) * ulp

\* `.sqrt().ceil() as usize` of an f32 holding the integer m: sqrt gives the f32
\* nearest to the square root.  With k = floor(sqrt(m)) and the f32 values from k
\* on 1/U apart, a root above k is rounded down to k exactly when it is below
\* k + 1/(2U), that is when U * (m - k*k) <= k; ceil then gives k, and k + 1 in
\* the other case.
SqrtCeilF32(m) ==
    LET k == FloorSqrt(m)
    IN  IF k * k = m
        THEN k
        ELSE LET U == Pow2(23 - Log2Floor(k))
             IN  IF m - k * k <= k \div U THEN k ELSE k + 1

\* atlas_tile_count = (paths.len() as f32).sqrt().ceil() as usize
atlas_tile_count(len) == SqrtCeilF32(AsF32(len))

\* pixel_x, pixel_y of tile i: i % atlas_tile_count * width,
\* i / atlas_tile_count * height
TilePixel(i, tile_count, width, height) ==
    <<(i % tile_count) * width, (i \div tile_count) * height>>

\* the directories packed: paths.len() .png entries whose images are all
\* width x height, of which at most one (odd, -1 for none) cannot be read or is a
\* directory
PackCounts ==
    (0 .. MaxTextures)
        \cup {F32_EXACT_MAX - 1, F32_EXACT_MAX, F32_EXACT_MAX + 1, F32_EXACT_MAX + 4}
PackInputs ==
    {in \in [len : PackCounts, width : 1 .. MaxTile, height : 1 .. MaxTile,
             odd : {-1, 0, 1}, odd_kind : {"unreadable", "dir"}] :
        /\ in.odd < in.len
        /\ in.odd = -1 => in.odd_kind = "unreadable"}

\* is entry i of the input one the tile loop packs
Packed(input, i) == i >= 0 /\ i < input.len /\ i # input.odd

NotPacked ==
    [done |-> FALSE, panicked |-> FALSE, written |-> FALSE, atlas_tile_count |-> 0,
     atlas_width |-> 0, atlas_height |-> 0]

\* paths[0] does not exist for an empty directory, and
\* png_utils::read(&paths[0]).unwrap() panics when the first entry is not read
FirstReadPanics(input) == input.len = 0 \/ input.odd = 0

\* the ways a run of pack_textures on input can end
PackOutcomes(input) ==
    IF FirstReadPanics(input)
    THEN {[NotPacked EXCEPT !.done = TRUE, !.panicked = TRUE]}
    ELSE LET tile_count == atlas_tile_count(input.len)
             atlas_width == input.width * tile_count
             atlas_height == input.height * tile_count
             \* the last entry the loop packs: no other one lies further down
             last == IF input.odd = input.len - 1 THEN input.len - 2 ELSE input.len - 1
             pixel == TilePixel(last, tile_count, input.width, input.height)
             fits == last < 0 \/ pixel[2] + input.height <= atlas_height
             finished == [done |-> TRUE, panicked |-> FALSE, written |-> TRUE,
                          atlas_tile_count |-> tile_count,
                          atlas_width |-> atlas_width, atlas_height |-> atlas_height]
         IN  IF fits
             THEN {finished}
             \* set_pixel is called with rows below the atlas; it is not among
             \* the sources, and either panics or returns
             ELSE {finished, [finished EXCEPT !.panicked = TRUE, !.written = FALSE]}

\* pack_textures runs on the directory
pack_textures ==
    /\ ~pack_result.done
    /\ pack_result' \in PackOutcomes(pack_input)
    /\ UNCHANGED <<pack_input, chunkVars, indexVars, terrainVars, frameVars,
                   schedVars, legacyVars>>

InitPack ==
    /\ pack_input \in PackInputs
    /\ pack_result = NotPacked

\* no directory is packed
InitNoPack ==
    /\ pack_input = [len |-> 1, width |-> 1, height |-> 1, odd |-> -1,
                     odd_kind |-> "unreadable"]
    /\ pack_result = NotPacked

InitGet ==
    /\ InitIter
    /\ InitNoPack
    /\ probe \in ProbePositions
    /\ chunk \in {"flat", "generate"}
    /\ index_result = NotApplied
    /\ oob_result = NoBool
    /\ within_result = NoBool
    /\ get_result = NoGet

InitChunk ==
    /\ InitIter
    /\ InitNoPack
    /\ probe \in ProbePositions
    /\ index_result = NotApplied
    /\ oob_result = NoBool
    /\ within_result = NoBool
    /\ chunk = "flat"
    /\ get_result = NoGet

\* no position is probed
InitProbeIdle ==
    /\ probe = <<0, 0, 0>>
    /\ index_result = NotApplied
    /\ oob_result = NoBool
    /\ within_result = NoBool
    /\ chunk = "flat"
    /\ get_result = NoGet

InitNoProbe == InitIter /\ InitNoPack /\ InitProbeIdle

(***************************************************************************)
(* The stages of the renderer plugin                                       *)
(***************************************************************************)
\* SYSTEM_STAGE_*
Stages == {"pre_render", "render", "ui_draw_widgets", "ui_render", "post_render"}

\* the with_system calls of initialize_ecs_plugin: the name the system is
\* registered under, its third argument and its fourth.  The third argument
\* names the stages that come after the system and the fourth the stages that
\* come before it: render_system, which takes over the frame that
\* pre_render_system acquires, names pre_render in the fourth.
Systems ==
    {[name |-> "pre_render", before |-> {"render"}, after |-> {}],
     [name |-> "render", before |-> {"ui_draw_widgets"}, after |-> {"pre_render"}],
     [name |-> "ui_render", before |-> {}, after |-> {"ui_draw_widgets"}],
     [name |-> "post_render", before |-> {}, after |-> {"ui_render"}]}

\* the declared order with the fourth arguments left out
RunsBefore_third_only ==
    {e \in Stages \X Stages : \E sys \in Systems : e[1] = sys.name /\ e[2] \in sys.before}

\* the declared order: <<a, b>> when a system declares that a runs before b
RunsBefore ==
    {e \in Stages \X Stages :
        \E sys \in Systems :
            \/ e[1] = sys.name /\ e[2] \in sys.before
            \/ e[2] = sys.name /\ e[1] \in sys.after}

InRan(s) == \E i \in 1 .. Len(ran) : ran[i] = s

\* the scheduler runs stage s: it has not run in this tick, and every stage
\* declared to run before it has
RunStage(s) ==
    /\ ~InRan(s)
    /\ \A e \in RunsBefore : e[2] = s => InRan(e[1])
    /\ ran' = Append(ran, s)
    /\ UNCHANGED <<ticks, indexVars, terrainVars, frameVars, chunkVars,
                   packVars, legacyVars>>

\* every stage has run: the tick is over and the next one starts
EndTick ==
    /\ \A s \in Stages : InRan(s)
    /\ ticks < MaxTicks
    /\ ran' = <<>>
    /\ ticks' = ticks + 1
    /\ UNCHANGED <<indexVars, terrainVars, frameVars, chunkVars, packVars, legacyVars>>

InitFrame ==
    /\ ran = <<>>
    /\ ticks = 0
    /\ wireframe = FALSE
    /\ stage = "pre_render"
    /\ frame = 0
    /\ last_acquire = "none"
    /\ texture = None
    /\ encoder = None
    /\ submitted = <<>>
    /\ presented = <<>>

InitIndex ==
    /\ terrain_index_buffer = compute_terrain_indices(ToLen(INITIAL_VERT_LENGTH)).buf
    /\ panicked = FALSE
    /\ last_call = NoCall

InitTerrain ==
    /\ terrain_map = {}
    /\ terrain_render = [p \in {} |-> ToLen(0)]
    /\ mesh_calls = [p \in Positions |-> 0]
    /\ terrain_scanned = FALSE

Init == InitIndex /\ InitLegacy /\ InitTerrain /\ InitFrame /\ InitNoProbe

NextIndex == CallCreateVertexBuffer(IndexFormats, CallerLens)

SpecIndex == Init /\ [][NextIndex]_vars

Next ==
    \/ AddChunk
    \/ terrain_system_render
    \/ CallCreateVertexBuffer({"Uint32"}, OtherLens)

Spec == Init /\ [][Next]_vars

NextFrame ==
    \/ AddChunk
    \/ terrain_system_render
    \/ ToggleWireframe
    \/ pre_render_system
    \/ render_system
    \/ ui_stage
    \/ post_render_system

SpecFrame == Init /\ [][NextFrame]_vars

NextChunk == ApplyIndexOf

\* the renderer as constructed, and any probe position
InitProbe == InitIndex /\ InitLegacy /\ InitTerrain /\ InitFrame /\ InitChunk

SpecChunk == InitProbe /\ [][NextChunk]_vars

NextBounds ==
    \/ ApplyIndexOf
    \/ ApplyOutOfBounds
    \/ ApplyWithinBounds

SpecBounds == InitProbe /\ [][NextBounds]_vars

NextGet == ApplyGet

\* the renderer as constructed, a chunk and any probe position
InitLookup == InitIndex /\ InitLegacy /\ InitTerrain /\ InitFrame /\ InitGet

SpecGet == InitLookup /\ [][NextGet]_vars

NextIter == CallNext \/ CallIter

\* the renderer as constructed and a fresh chunk iterator
InitWalk == InitIndex /\ InitLegacy /\ InitTerrain /\ InitFrame /\ InitNoProbe

SpecIter == InitWalk /\ [][NextIter]_vars

NextPack == pack_textures

\* the renderer as constructed and a directory to pack
InitPacker ==
    InitIndex /\ InitLegacy /\ InitTerrain /\ InitFrame /\ InitIter /\ InitProbeIdle /\ InitPack

SpecPack == InitPacker /\ [][NextPack]_vars

NextSchedule == (\E s \in Stages : RunStage(s)) \/ EndTick

SpecSchedule == Init /\ [][NextSchedule]_vars

NextLegacy == LegacyCallCreateVertexBuffer

SpecLegacy == Init /\ [][NextLegacy]_vars

(***************************************************************************)
(* Properties                                                              *)
(***************************************************************************)
\* P and its four planar neighbours P+(0,1), P+(1,0), P+(0,-1), P+(-1,0) are
\* all keys of TerrainMap
LoadedWithNeighbors(p) ==
    /\ p \in terrain_map
    /\ <<p[1], p[2] + 1>> \in terrain_map
    /\ <<p[1] + 1, p[2]>> \in terrain_map
    /\ <<p[1], p[2] - 1>> \in terrain_map
    /\ <<p[1] - 1, p[2]>> \in terrain_map

\* C1: every cached chunk vertex buffer of length L needs no more than the shared
\* index buffer has: L/4*6 is at most the buffer's len() (compared halved) and at
\* most the number of indices it was built with, so draw_indexed(0..L/4*6) stays
\* inside it.
C1_CachedBuffersFitIndexBuffer ==
    \A p \in DOMAIN terrain_render :
        /\ 3 * terrain_render[p].q <= BufferLenHalf(terrain_index_buffer)
        /\ terrain_render[p].q <= terrain_index_buffer

\* C1 witness: a large and a small chunk mesh are cached together and the index
\* buffer has the size the large one asked for.
C1_Witness ==
    \E p1, p2 \in DOMAIN terrain_render :
        /\ terrain_render[p1].q = MaxMeshQuads
        /\ terrain_render[p2].q = 1000
        /\ terrain_index_buffer = MaxMeshQuads

\* C2 (as claimed): after create_vertex_buffer with L <= u32::MAX vertices of a
\* Uint32-indexed type returns, the shared index buffer holds at least L/4*6
\* indices.
C2_IndexBufferCoversRequest ==
    (last_call.fmt = "Uint32" /\ ~GtU32Max(last_call.len) /\ ~panicked)
        => terrain_index_buffer >= last_call.len.q

C4_TooManyVerticesPanics ==
    (last_call.fmt = "Uint32" /\ GtU32Max(last_call.len)) => panicked

\* C5: every position with a render entry, and every position the mesher ever ran
\* for, is a key of TerrainMap with all four planar neighbours in TerrainMap.
C5_CachedOnlyWithAllNeighbors ==
    \A p \in Positions :
        (p \in DOMAIN terrain_render \/ mesh_calls[p] > 0) => LoadedWithNeighbors(p)

\* C5 witness: after a run, one chunk is cached while another loaded chunk, with a
\* neighbour missing, is not.
C5_Witness ==
    /\ terrain_scanned
    /\ DOMAIN terrain_render # {}
    /\ \E p \in terrain_map : ~LoadedWithNeighbors(p) /\ p \notin DOMAIN terrain_render

\* C6: when a run of terrain_system_render has ended (and TerrainMap has not
\* changed since), every loaded position with all four neighbours loaded has a
\* render entry.
C6_MeshedInTheSameRun ==
    terrain_scanned =>
        \A p \in Positions : LoadedWithNeighbors(p) => p \in DOMAIN terrain_render

\* C6 witness: a run has ended with every chunk of the row cached.
C6_Witness ==
    /\ terrain_scanned
    /\ DOMAIN terrain_render = Row

\* C7: the mesher runs at most once per position, and no step removes or changes
\* an existing render entry.
C7_EntryCreatedOnce ==
    /\ [](\A p \in Positions : mesh_calls[p] <= 1)
    /\ [][\A p \in DOMAIN terrain_render :
             /\ p \in DOMAIN terrain_render'
             /\ terrain_render'[p] = terrain_render[p]
             /\ mesh_calls'[p] = mesh_calls[p]]_vars

\* C7 witness: a chunk has its render entry, chunks were added to TerrainMap
\* afterwards (another chunk has become meshable and is not cached yet), and the
\* first chunk was meshed once.
C7_Witness ==
    \E p1, p2 \in Positions :
        /\ p1 \in DOMAIN terrain_render
        /\ mesh_calls[p1] = 1
        /\ p2 \notin DOMAIN terrain_render
        /\ LoadedWithNeighbors(p2)

\* C8 (as claimed): a frame whose acquisition failed with Timeout or Outdated runs
\* its remaining stages without aborting the process.
C8_FailedAcquireDropsFrame ==
    last_acquire \in {"Timeout", "Outdated"} => ~panicked

\* C9: the pass render_system records has exactly one indexed draw per cache entry,
\* with range 0..L/4*6, on the shared index buffer; with an empty cache it binds
\* no terrain pipeline and no index buffer and draws nothing.
C9_OneDrawPerCachedChunk ==
    [][(stage = "render" /\ stage' = "ui_draw_widgets" /\ ~panicked') =>
          LET pass == encoder'.v.pass
          IN  /\ pass.begun
              /\ DOMAIN pass.draws = DOMAIN terrain_render
              /\ \A p \in DOMAIN terrain_render :
                    pass.draws[p] = <<((4 * terrain_render[p].q + terrain_render[p].r)
                                          \div 4) * 6>>
              /\ IF DOMAIN terrain_render = {}
                 THEN pass.pipeline = "none" /\ pass.index_buffer = None
                 ELSE /\ pass.pipeline \in {"terrain", "terrain_wireframe"}
                      /\ pass.index_buffer = Some(terrain_index_buffer)]_vars

\* C9 witness: a pass was recorded with one draw for each of two cached chunks of
\* different sizes.
C9_Witness ==
    /\ encoder.some
    /\ encoder.v.pass.begun
    /\ DOMAIN encoder.v.pass.draws = Row
    /\ encoder.v.pass.draws[<<1, 0>>] = <<6000>>
    /\ encoder.v.pass.draws[<<2, 0>>] = <<12000>>

\* C10: index_of returns Some(x + y*16 + z*16*256) exactly when 0 <= x < 16,
\* 0 <= y < 256 and 0 <= z < 16, and None otherwise.
C10_IndexOfFormula ==
    index_result.applied =>
        LET x == probe[1]
            y == probe[2]
            z == probe[3]
        IN  IF 0 <= x /\ x < 16 /\ 0 <= y /\ y < 256 /\ 0 <= z /\ z < 16
            THEN index_result.value = Some(x + y * 16 + z * 16 * 256)
            ELSE index_result.value = None

\* C10 witness: index_of was applied to the last in-bounds position.
C10_Witness ==
    /\ index_result.applied
    /\ probe = <<15, 255, 15>>
    /\ index_result.value = Some(65535)

\* C11: for a position with a negative coordinate, whatever the other axes,
\* out_of_bounds is true and index_of is None; out_of_bounds is also true when a
\* coordinate equals its SIZE component (16, 256, 16), and false at (15, 255, 15).
C11_NegativeIsOutOfBounds ==
    LET x == probe[1]
        y == probe[2]
        z == probe[3]
    IN  /\ (oob_result.applied /\ (x < 0 \/ y < 0 \/ z < 0)) => oob_result.value
        /\ (index_result.applied /\ (x < 0 \/ y < 0 \/ z < 0))
              => index_result.value = None
        /\ (oob_result.applied /\ (x = 16 \/ y = 256 \/ z = 16)) => oob_result.value
        /\ (oob_result.applied /\ probe = <<15, 255, 15>>) => ~oob_result.value

\* C11 witness: both functions were applied to a position that is negative on one
\* axis and beyond SIZE on the two others.
C11_Witness ==
    /\ probe = <<-1, 256, I32_MAX>>
    /\ oob_result.applied /\ oob_result.value
    /\ index_result.applied /\ index_result.value = None

\* C12: the three bounds views agree: out_of_bounds(pos) is true exactly when
\* index_of(pos) is None, and within_bounds(pos) is the negation of
\* out_of_bounds(pos).
C12_BoundsViewsAgree ==
    /\ (oob_result.applied /\ index_result.applied)
          => (oob_result.value <=> index_result.value = None)
    /\ (oob_result.applied /\ within_result.applied)
          => (within_result.value <=> ~oob_result.value)

\* C12 witness: the three functions were applied to an in-bounds position and to
\* none other; index_of gave an index.
C12_Witness ==
    /\ probe = <<0, 255, 15>>
    /\ index_result.applied /\ index_result.value.some
    /\ oob_result.applied /\ ~oob_result.value
    /\ within_result.applied /\ within_result.value

\* the in-bounds domain 0 <= x < 16, 0 <= y < 256, 0 <= z < 16
InBoundsDomain == (0 .. 15) \X (0 .. 255) \X (0 .. 15)

\* what index_of returns over the in-bounds domain
IndexImage == {index_of(p) : p \in InBoundsDomain}

\* C13: over the in-bounds domain index_of is injective (its image has as many
\* elements as the domain, so no two positions share an index) and every index it
\* returns is less than 16*256*16 = 65536.
C13_IndexOfInjective ==
    /\ Cardinality(IndexImage) = Cardinality(InBoundsDomain)
    /\ (index_result.applied /\ probe \in InBoundsDomain)
          => /\ index_result.value.some
             /\ index_result.value.v >= 0
             /\ index_result.value.v < 65536

\* C13 witness: index_of was applied to an in-bounds position and gave the largest
\* index.
C13_Witness ==
    /\ index_result.applied
    /\ probe \in InBoundsDomain
    /\ index_result.value.some
    /\ index_result.value.v = 65535

\* C14: on a chunk built by flat() or generate(), get(pos) does not panic; it
\* returns the block stored at x + y*16 + z*16*256 when pos is in bounds and None
\* when it is not.
C14_GetNeverPanics ==
    get_result.applied =>
        /\ ~get_result.panic
        /\ IF probe \in InBoundsDomain
           THEN get_result.value =
                    Some(ChunkBlocks(chunk)[probe[1] + probe[2] * 16
                                               + probe[3] * 16 * 256 + 1])
           ELSE get_result.value = None

\* C14 witness: get was applied to a position far out of bounds on a generated
\* chunk and returned None.
C14_Witness ==
    /\ chunk = "generate"
    /\ probe = <<I32_MAX, 255, 15>>
    /\ get_result.applied
    /\ ~get_result.panic
    /\ get_result.value = None

\* the lengths of the block sequences flat() and generate() build
FlatLen == Len(flat.blocks)
GeneratedLen == Len(generate(<<0, 0>>).blocks)

\* the loops of generate write every index of the block sequence
GenerateWritesAll == GenerateWritten = 0 .. (16 * 256 * 16 - 1)

\* C17: the block sequence of a chunk built by flat() or generate() has length
\* 16*256*16; generate writes every index of that sequence without panicking, so
\* that get returns Dirt at every in-bounds position of a generated chunk and Air
\* at every in-bounds position of a flat one.
C17_FullLengthAndCoverage ==
    /\ FlatLen = 16 * 256 * 16
    /\ GeneratedLen = 16 * 256 * 16
    /\ ~generate(<<0, 0>>).panic
    /\ GenerateWritesAll
    /\ (get_result.applied /\ probe \in InBoundsDomain) =>
           get_result.value = Some(IF chunk = "generate" THEN "Dirt" ELSE "Air")

\* C17 witness: get was applied at the last in-bounds position of a generated
\* chunk and found Dirt there.
C17_Witness ==
    /\ chunk = "generate"
    /\ probe = <<15, 255, 15>>
    /\ get_result.applied
    /\ get_result.value = Some("Dirt")

\* C15: the i-th position next() yields after iter() (counting from 0) is
\* (i mod 16, (i / 16) mod 256, i / (16*256)); it is within bounds and its index
\* is i, so the indices of the yielded positions increase by one each time and no
\* position comes twice; next() returns None exactly when 16*256*16 positions
\* have been yielded, and the iterator steps no further.
C15_IterVisitsEveryPositionOnce ==
    /\ yielded <= 16 * 256 * 16
    /\ chunk_iter.index = yielded
    /\ iter_item.applied =>
          IF iter_item.value.some
          THEN LET i == yielded - 1
                   pos == iter_item.value.v
               IN  /\ pos = <<i % 16, (i \div 16) % 256, i \div (16 * 256)>>
                   /\ within_bounds(pos)
                   /\ index_of(pos) = Some(i)
          ELSE yielded = 16 * 256 * 16

\* C15 witness: the iterator has yielded all 65536 positions and next() returned
\* None.
C15_Witness ==
    /\ iter_item.applied
    /\ ~iter_item.value.some
    /\ yielded = 65536

\* ceiling of the square root of n
CeilSqrt(n) == LET k == FloorSqrt(n) IN IF k * k = n THEN k ELSE k + 1

\* the tiles looked at in a directory of n textures: the first MaxTextures ones
\* and the last two
TileProbes(n) == {i \in (0 .. MaxTextures - 1) \cup {n - 2, n - 1} : i >= 0 /\ i < n}

\* C18: a run of pack_textures on n >= 1 readable textures of width x height
\* uses ceil(sqrt(n)) tiles per side, makes the atlas tile_count*width by
\* tile_count*height, puts tile i at cell (i mod tile_count, i div tile_count),
\* every tile inside the atlas and no two tiles in the same cell.
C18_TilesInsideAtlas ==
    (pack_result.done /\ pack_input.len >= 1 /\ pack_input.odd = -1) =>
        LET n == pack_input.len
            w == pack_input.width
            h == pack_input.height
            tile_count == CeilSqrt(n)
            at(i) == TilePixel(i, pack_result.atlas_tile_count, w, h)
        IN  /\ ~pack_result.panicked
            /\ pack_result.atlas_tile_count = tile_count
            /\ pack_result.atlas_width = tile_count * w
            /\ pack_result.atlas_height = tile_count * h
            /\ \A i \in TileProbes(n) :
                  /\ at(i) = <<(i % tile_count) * w, (i \div tile_count) * h>>
                  /\ at(i)[1] + w <= pack_result.atlas_width
                  /\ at(i)[2] + h <= pack_result.atlas_height
            /\ \A i, j \in TileProbes(n) : i # j => at(i) # at(j)

\* C19: a run of pack_textures on a directory of at least one texture (and few
\* enough for the tile count to be exact) in which exactly one file, whatever
\* its index, cannot be read does not abort: it writes the atlas, with every
\* other tile at its own cell.
C19_ReadFailureSkipsOneTile ==
    (/\ pack_result.done
     /\ pack_input.len >= 1 /\ pack_input.len <= F32_EXACT_MAX
     /\ pack_input.odd >= 0 /\ pack_input.odd < pack_input.len
     /\ pack_input.odd_kind = "unreadable") =>
        /\ ~pack_result.panicked
        /\ pack_result.written
        /\ pack_result.atlas_tile_count = CeilSqrt(pack_input.len)
        /\ ~Packed(pack_input, pack_input.odd)
        /\ \A i \in TileProbes(pack_input.len) \ {pack_input.odd} : Packed(pack_input, i)

\* the pairs <<a, c>> with a declared before b and b before c, added to R
Compose(R) == R \cup {e \in Stages \X Stages :
                        \E b \in Stages : <<e[1], b>> \in R /\ <<b, e[2]>> \in R}

\* every <<a, b>> with a chain of declarations from a to b (chains over five
\* stages have at most five links)
ComesBefore == Compose(Compose(Compose(RunsBefore)))

\* no stage is declared, directly or through others, to run before itself
DeclaredAcyclic == \A s \in Stages : <<s, s>> \notin ComesBefore

\* the order of the stages within a frame
FrameOrder ==
    {<<"pre_render", "render">>, <<"render", "ui_draw_widgets">>,
     <<"ui_draw_widgets", "ui_render">>, <<"ui_render", "post_render">>}

\* C20: the declared stage order has no cycle, and in every tick a stage runs
\* only after the stage that precedes it in the frame order (pre_render, render,
\* ui_draw_widgets, ui_render, post_render) has run.
C20_StagesRunInFrameOrder ==
    /\ DeclaredAcyclic
    /\ \A e \in FrameOrder :
          \A j \in 1 .. Len(ran) :
              ran[j] = e[2] => \E i \in 1 .. (j - 1) : ran[i] = e[1]

\* C20 witness: in a tick after the first all five stages have run.
C20_Witness ==
    /\ ticks >= 1
    /\ Len(ran) = 5
    /\ ran[1] = "pre_render"
    /\ ran[5] = "post_render"

\* C21 (as claimed): a create_vertex_buffer call with L <= u32::MAX vertices is an
\* exact ensure-capacity.  For a Uint32-indexed type, when the shared index
\* buffer has fewer than L/4*6 indices the call replaces it by one of exactly
\* L/4*6 indices, the j-th being (j div 6)*4 + [0,1,2,2,3,0][j mod 6] (looked at
\* in the first and the last quad); in every other case, and for Uint16 and
\* None, the call leaves the buffer as it was.
C21_ExactEnsureCapacity ==
    [][LET fmt == last_call'.fmt
           len == last_call'.len
       IN  (~panicked /\ fmt \in IndexFormats /\ ~GtU32Max(len)) =>
               IF fmt = "Uint32" /\ terrain_index_buffer < len.q
               THEN /\ ~panicked'
                    /\ terrain_index_buffer' = len.q
                    /\ \A quad \in {0, len.q - 1}, k \in 0 .. 5 :
                          IndexAt(quad, k) =
                              [q |-> quad, r |-> CASE k \in {0, 5} -> 0
                                                   [] k = 1 -> 1
                                                   [] k \in {2, 3} -> 2
                                                   [] k = 4 -> 3]
               ELSE terrain_index_buffer' = terrain_index_buffer]_vars

\* C22 (as claimed): after the legacy create_vertex_buffer with L <= u32::MAX
\* vertices of a Uint32-indexed type returns, the legacy shared index buffer
\* holds at least L/4*6 indices.
C22_LegacyBufferCoversRequest ==
    (/\ legacy_last_call.fmt = "Uint32"
     /\ ~GtU32Max(legacy_last_call.len)
     /\ ~legacy_panicked)
        => legacy_index_buffer >= legacy_last_call.len.q

\* what holds of the frames submitted and presented so far
FramesSubmittedOnce ==
    \* a frame is presented when, and only when, its commands are submitted
    /\ submitted = presented
    \* no frame twice, and in the order of the frames
    /\ \A i, j \in 1 .. Len(submitted) : i < j => submitted[i] < submitted[j]
    \* between frames both slots are empty
    /\ stage = "pre_render" => texture = None /\ encoder = None
    \* what is in the slots belongs to the frame being rendered, which has not
    \* been submitted yet
    /\ encoder.some =>
          /\ texture.some
          /\ encoder.v.frame = frame /\ texture.v.frame = frame
          /\ \A i \in 1 .. Len(submitted) : submitted[i] < frame
    \* a frame that was acquired and has run its stages is the last one submitted
    /\ (stage = "pre_render" /\ frame >= 1 /\ last_acquire = "Ok" /\ ~panicked) =>
          /\ Len(submitted) >= 1
          /\ submitted[Len(submitted)] = frame
    \* a frame that was not acquired is not submitted
    /\ last_acquire # "Ok" => \A i \in 1 .. Len(submitted) : submitted[i] # frame

\* a step that submits or presents is post_render_system finding both slots
\* filled, and it submits and presents the frame being rendered
SubmitOnlyInPostRender ==
    (submitted' # submitted \/ presented' # presented) =>
        /\ stage = "post_render"
        /\ texture.some /\ encoder.some
        /\ last_acquire = "Ok"
        /\ submitted' = Append(submitted, frame)
        /\ presented' = Append(presented, frame)
        /\ texture' = None /\ encoder' = None

\* C23: every frame pre_render_system acquired has, once post_render_system of
\* that frame has run, been submitted once and presented once, by that
\* post_render_system; post_render_system submits and presents only when it
\* finds both the texture and the encoder, and leaves both slots empty, so that
\* no frame is submitted twice or carried into a later frame.
C23_EachFrameSubmittedOnce ==
    [](FramesSubmittedOnce) /\ [][SubmitOnlyInPostRender]_vars

\* C23 witness: two frames were acquired, and each was submitted and presented
\* once, in order.
C23_Witness ==
    /\ stage = "pre_render"
    /\ frame = 2
    /\ submitted = <<1, 2>>
    /\ presented = <<1, 2>>
    /\ texture = None
    /\ encoder = None

====
